---- MODULE Spec2Model ----
(***************************************************************************)
(* Two brute-force solvers of OptimizationLab.                             *)
(*   fuerza_bruta/mochila.ipynb : 0/1 knapsack over all 2^N bit patterns   *)
(*   unnamed/part_000           : travelling salesman over all             *)
(*                                permutations of the cities 1..N-1        *)
(* Each notebook is a straight run of its cells; a cell, or one iteration  *)
(* of the outer loop, is one action.                                       *)
(*                                                                         *)
(* Python values: None and a list are kept apart by a tag (Ninguno,        *)
(* Lista), float('inf') and a number likewise (Infinito, Numero).          *)
(* Item indices keep the source's 0-based numbering; TLA+ sequences are    *)
(* 1-based, so the item of index idx is W[idx + 1].                        *)
(* Weights and the capacity are held in half units, so that the source's   *)
(* weight 1.5 is the integer 3; the ratio order and every comparison with  *)
(* the capacity are the same in any unit.                                  *)
(***************************************************************************)
EXTENDS Integers, Sequences, FiniteSets, TLC

\* Bounds of the explored inputs.
MaxN == 2
MaxW == 3
MaxP == 3
MaxC == 4
MaxCities == 2
MaxDist == 5

VARIABLES
    W, P, C,              \* knapsack input: weights, values, capacity
    objetos,              \* the ranked item list (P[i], W[i], i)
    i,                    \* outer loop counter: the next bit pattern
    mejor_ganancia,
    mejor_combinacion,
    distancias,           \* TSP input: the distance matrix
    k,                    \* number of permutations evaluated so far
    mejor_ruta,
    distancia_minima,
    pc,                   \* the cell about to run, "done" or "error"
    error,                \* name of the exception that stopped the run, or ""
    salida                \* the printed lines so far

vars == <<W, P, C, objetos, i, mejor_ganancia, mejor_combinacion,
          distancias, k, mejor_ruta, distancia_minima, pc, error, salida>>

mochilaVars == <<W, P, C, objetos, i, mejor_ganancia, mejor_combinacion>>
tspVars == <<distancias, k, mejor_ruta, distancia_minima>>

----------------------------------------------------------------------------
\* Python values

Ninguno == [tipo |-> "None", val |-> <<>>]
Lista(s) == [tipo |-> "list", val |-> s]
Infinito == [tipo |-> "inf", val |-> 0]
Numero(n) == [tipo |-> "num", val |-> n]

RECURSIVE Pow2(_)
Pow2(n) == IF n = 0 THEN 1 ELSE 2 * Pow2(n - 1)

RECURSIVE SumSeq(_)
SumSeq(s) == IF s = <<>> THEN 0 ELSE Head(s) + SumSeq(Tail(s))

Range(s) == {s[x] : x \in DOMAIN s}

\* sorted(list of ints): ascending insertion sort
RECURSIVE InsertAsc(_, _)
InsertAsc(s, x) ==
    IF s = <<>> THEN <<x>>
    ELSE IF x < Head(s) THEN <<x>> \o s
    ELSE <<Head(s)>> \o InsertAsc(Tail(s), x)

RECURSIVE SortedAsc(_)
SortedAsc(s) ==
    IF s = <<>> THEN <<>>
    ELSE InsertAsc(SortedAsc(SubSeq(s, 1, Len(s) - 1)), s[Len(s)])

----------------------------------------------------------------------------
\* Knapsack (mochila.ipynb)

N == Len(W)

\* the tuple (P[i], W[i], i) of the list comprehension
Objeto(idx) == <<P[idx + 1], W[idx + 1], idx>>

\* key(a) < key(b) for key = x[0] / x[1], both weights non-zero: the
\* quotients are compared exactly (cross-multiplied by the sign of w_a * w_b)
ClaveMenor(a, b) ==
    IF a[2] * b[2] > 0 THEN a[1] * b[2] < b[1] * a[2]
    ELSE a[1] * b[2] > b[1] * a[2]

\* stable insertion into a list sorted by key, descending: x goes behind
\* every element whose key is >= its own
RECURSIVE Insertar(_, _)
Insertar(s, x) ==
    IF s = <<>> THEN <<x>>
    ELSE IF ClaveMenor(Head(s), x) THEN <<x>> \o s
    ELSE <<Head(s)>> \o Insertar(Tail(s), x)

\* sorted(items, key=ratio, reverse=True): descending, equal keys keep
\* their original order
RECURSIVE OrdenarDesc(_)
OrdenarDesc(s) ==
    IF s = <<>> THEN <<>>
    ELSE Insertar(OrdenarDesc(SubSeq(s, 1, Len(s) - 1)), s[Len(s)])

Items == [x \in 1..N |-> Objeto(x - 1)]

\* 1 << N
NumPatronesCorto == Pow2(N) - 1
NumPatrones == Pow2(N)

\* (i >> j) & 1
BitDesplazado(pat, j) == (pat \div Pow2(j + 1)) % 2 = 1
Bit(pat, j) == (pat \div Pow2(j)) % 2 = 1

\* the index appended to seleccion for ranked position j
SeleccionadoRanked(objs, j) == j
Seleccionado(objs, j) == objs[j + 1][3]

\* if peso_total > C: break
Rompe(peso_total) == peso_total > C

Inicio == [peso_total |-> 0, ganancia_total |-> 0, seleccion |-> <<>>]

\* the inner loop "for j in range(N)" from position j on; corte = FALSE is
\* the same loop with the break removed
RECURSIVE Evaluar(_, _, _, _, _)
Evaluar(objs, pat, j, acc, corte) ==
    IF j = Len(objs) THEN acc
    ELSE IF Bit(pat, j) THEN
        LET peso == objs[j + 1][2]
            idx == objs[j + 1][3]
            nuevo == [peso_total |-> acc.peso_total + peso,
                      ganancia_total |-> acc.ganancia_total + P[idx + 1],
                      seleccion |-> Append(acc.seleccion, Seleccionado(objs, j))]
        IN  IF corte /\ Rompe(nuevo.peso_total) THEN nuevo
            ELSE Evaluar(objs, pat, j + 1, nuevo, corte)
    ELSE Evaluar(objs, pat, j + 1, acc, corte)

\* if peso_total <= C and ganancia_total > mejor_ganancia
AceptaSinPeso(acc, mejor) == acc.ganancia_total > mejor
Acepta(acc, mejor) == acc.peso_total <= C /\ acc.ganancia_total > mejor

\* one iteration of the outer loop on the best so far
Paso(best, objs, pat, corte) ==
    LET acc == Evaluar(objs, pat, 0, Inicio, corte)
    IN  IF Acepta(acc, best.ganancia)
        THEN [ganancia |-> acc.ganancia_total, combinacion |-> Lista(acc.seleccion)]
        ELSE best

MejorInicial == [ganancia |-> 0, combinacion |-> Ninguno]

\* the outer loop over the patterns 0 .. n-1
RECURSIVE Recorrer(_, _, _)
Recorrer(objs, n, corte) ==
    IF n = 0 THEN MejorInicial
    ELSE Paso(Recorrer(objs, n - 1, corte), objs, n - 1, corte)

\* the 5-item scenario of the notebook, weights in half units
WEjemplo == <<4, 2, 6, 3, 8>>
PEjemplo == <<5, 7, 5, 4, 10>>
CEjemplo == 2 * 8

InitMochila ==
    /\ \/ W = WEjemplo /\ P = PEjemplo /\ C = CEjemplo
       \/ \E n \in 0..MaxN :
              /\ W \in [1..n -> (-1)..MaxW]
              /\ P \in [1..n -> 0..MaxP]
              /\ C \in 0..MaxC
    /\ objetos = <<>>
    /\ i = 0
    /\ mejor_ganancia = 0
    /\ mejor_combinacion = Ninguno
    /\ distancias = <<>>
    /\ k = 0
    /\ mejor_ruta = Ninguno
    /\ distancia_minima = Infinito
    /\ pc = "ordenar"
    /\ error = ""
    /\ salida = <<>>

\* cell 2: the key x[0] / x[1] is computed for every item before sorting;
\* a zero weight raises ZeroDivisionError
OrdenarObjetos ==
    /\ pc = "ordenar"
    /\ IF \E x \in 1..N : W[x] = 0
       THEN /\ pc' = "error"
            /\ error' = "ZeroDivisionError"
            /\ objetos' = objetos
       ELSE /\ pc' = "loop"
            /\ error' = error
            /\ objetos' = OrdenarDesc(Items)
    /\ UNCHANGED <<W, P, C, i, mejor_ganancia, mejor_combinacion, tspVars, salida>>

\* cell 3: one iteration of "for i in range(1 << N)"; the loop is left
\* after the last pattern
IterarPatron ==
    /\ pc = "loop"
    /\ i < NumPatrones
    /\ LET r == Paso([ganancia |-> mejor_ganancia, combinacion |-> mejor_combinacion],
                     objetos, i, TRUE)
       IN  /\ mejor_ganancia' = r.ganancia
           /\ mejor_combinacion' = r.combinacion
    /\ i' = i + 1
    /\ pc' = IF i + 1 = NumPatrones THEN "mostrar" ELSE "loop"
    /\ UNCHANGED <<W, P, C, objetos, tspVars, error, salida>>

\* cell 4: the first print always succeeds; sorted(None) raises TypeError
MostrarMochila ==
    /\ pc = "mostrar"
    /\ IF mejor_combinacion = Ninguno
       THEN /\ salida' = <<<<"Mejor ganancia", mejor_ganancia>>>>
            /\ pc' = "error"
            /\ error' = "TypeError"
       ELSE /\ salida' = <<<<"Mejor ganancia", mejor_ganancia>>,
                           <<"Objetos seleccionados", SortedAsc(mejor_combinacion.val)>>>>
            /\ pc' = "done"
            /\ error' = error
    /\ UNCHANGED <<mochilaVars, tspVars>>

NextMochila == OrdenarObjetos \/ IterarPatron \/ MostrarMochila

SpecMochila == InitMochila /\ [][NextMochila]_vars

----------------------------------------------------------------------------
\* Travelling salesman (unnamed/part_000)

\* N = len(distancias)
NCiudades == Len(distancias)

\* range(1, N)
RangoCiudades == [x \in 1..(NCiudades - 1) |-> x]

Quitar(s, x) == SubSeq(s, 1, x - 1) \o SubSeq(s, x + 1, Len(s))
Anteponer(e, ps) == [y \in 1..Len(ps) |-> <<e>> \o ps[y]]

\* itertools.permutations(pool), as the sequence of tuples in the order they
\* are emitted: by the position of the first element in the pool, then
\* recursively by the rest; one empty tuple for an empty pool
RECURSIVE Permutaciones(_), PermDesde(_, _)
PermDesde(pool, x) ==
    IF x > Len(pool) THEN <<>>
    ELSE Anteponer(pool[x], Permutaciones(Quitar(pool, x))) \o PermDesde(pool, x + 1)
Permutaciones(pool) ==
    IF pool = <<>> THEN << <<>> >> ELSE PermDesde(pool, 1)

\* ruta = (0,) + permutacion + (0,)
Ruta(permutacion) == <<0>> \o permutacion \o <<0>>

\* np.sum(distancias[ruta[:-1], ruta[1:]]): row = from, column = to
DistanciaTranspuesta(ruta) ==
    SumSeq([x \in 1..(Len(ruta) - 1) |-> distancias[ruta[x + 1] + 1][ruta[x] + 1]])
DistanciaAbierta(ruta) ==
    SumSeq([x \in 1..(Len(ruta) - 2) |-> distancias[ruta[x] + 1][ruta[x + 1] + 1]])
DistanciaTotal(ruta) ==
    SumSeq([x \in 1..(Len(ruta) - 1) |-> distancias[ruta[x] + 1][ruta[x + 1] + 1]])

\* distancia_total < distancia_minima, distancia_minima starting at inf
EsMenorOIgual(d, minima) == IF minima.tipo = "inf" THEN TRUE ELSE d <= minima.val
EsMenor(d, minima) == IF minima.tipo = "inf" THEN TRUE ELSE d < minima.val

\* the 4-city scenario of the notebook
DistEjemplo == <<<<0, 10, 15, 20>>, <<10, 0, 35, 25>>,
                 <<15, 35, 0, 30>>, <<20, 25, 30, 0>>>>

\* two 3-city scenarios that are not symmetric: one with its two routes tied,
\* one where only the direction of travel decides
DistAsimetricaEmpate == <<<<0, 1, 2>>, <<3, 0, 3>>, <<2, 1, 0>>>>
DistAsimetrica == <<<<0, 4, 1>>, <<1, 0, 4>>, <<4, 1, 0>>>>

\* the n x n matrix with a zero diagonal and the entries f elsewhere
FueraDiagonal(n) == {rc \in (1..n) \X (1..n) : rc[1] # rc[2]}
Matriz(n, f) == [r \in 1..n |-> [c \in 1..n |-> IF r = c THEN 0 ELSE f[<<r, c>>]]]

Escenarios == {DistEjemplo, DistAsimetricaEmpate, DistAsimetrica}

InitTSP ==
    /\ \/ distancias \in Escenarios
       \/ \E n \in 1..MaxCities : \E f \in [FueraDiagonal(n) -> 0..MaxDist] :
              distancias = Matriz(n, f)
    /\ k = 0
    /\ mejor_ruta = Ninguno
    /\ distancia_minima = Infinito
    /\ W = <<>> /\ P = <<>> /\ C = 0
    /\ objetos = <<>>
    /\ i = 0
    /\ mejor_ganancia = 0
    /\ mejor_combinacion = Ninguno
    /\ pc = "loop"
    /\ error = ""
    /\ salida = <<>>

\* cell 3: one iteration of "for permutacion in permutations(range(1, N))"
IterarPermutacion ==
    /\ pc = "loop"
    /\ LET perms == Permutaciones(RangoCiudades)
           ruta == Ruta(perms[k + 1])
           distancia_total == DistanciaTotal(ruta)
       IN  /\ k < Len(perms)
           /\ IF EsMenor(distancia_total, distancia_minima)
              THEN /\ distancia_minima' = Numero(distancia_total)
                   /\ mejor_ruta' = Lista(ruta)
              ELSE UNCHANGED <<distancia_minima, mejor_ruta>>
           /\ k' = k + 1
           /\ pc' = IF k + 1 = Len(perms) THEN "mostrar" ELSE "loop"
    /\ UNCHANGED <<distancias, mochilaVars, error, salida>>

\* cell 4
MostrarRuta ==
    /\ pc = "mostrar"
    /\ salida' = <<<<"Ruta optima", mejor_ruta.val>>,
                   <<"Distancia minima", distancia_minima.val>>>>
    /\ pc' = "done"
    /\ UNCHANGED <<tspVars, mochilaVars, error>>

NextTSP == IterarPermutacion \/ MostrarRuta

SpecTSP == InitTSP /\ [][NextTSP]_vars

----------------------------------------------------------------------------
\* Properties of the knapsack notebook (checked under SpecMochila)

RECURSIVE SumaSobre(_, _)
SumaSobre(S, f) ==
    IF S = {} THEN 0
    ELSE LET x == CHOOSE y \in S : TRUE IN f[x + 1] + SumaSobre(S \ {x}, f)

PesosPositivos == \A x \in 1..N : W[x] > 0
PesosNoNegativos == \A x \in 1..N : W[x] >= 0

\* the enumeration loop has run to its end
TerminadoMochila ==
    \/ pc \in {"mostrar", "done"}
    \/ pc = "error" /\ error = "TypeError"

\* the loop has started (the ranking succeeded)
EnumerandoMochila == pc = "loop" \/ TerminadoMochila

Factible(S) == SumaSobre(S, W) <= C
ValoresFactibles == {SumaSobre(S, P) : S \in {T \in SUBSET (0..(N - 1)) : Factible(T)}}
ValorOptimo == CHOOSE v \in ValoresFactibles : \A u \in ValoresFactibles : u <= v

\* C1: when the loop over all 2^N patterns has finished on positive weights,
\* mejor_ganancia is the greatest total value of a subset of the items whose
\* total weight is at most C.
C1_Optimalidad ==
    (TerminadoMochila /\ PesosPositivos) => mejor_ganancia = ValorOptimo

C1_Witness ==
    /\ TerminadoMochila /\ PesosPositivos
    /\ N >= 2
    /\ ~Factible(0..(N - 1))
    /\ mejor_ganancia > 0
    /\ mejor_ganancia = ValorOptimo

\* C4: with no items, or with capacity 0 and only positive weights, the
\* result is value 0 and the empty selection (a list, not None).
C4_CasosBorde ==
    (TerminadoMochila /\ (N = 0 \/ (C = 0 /\ PesosPositivos)))
        => (mejor_ganancia = 0 /\ mejor_combinacion = Lista(<<>>))

\* C5: whenever an item has a zero or negative weight the ranking step
\* fails, so the run never gets past it and prints no result.
C5_Validacion ==
    (\E x \in 1..N : W[x] <= 0) => (pc \in {"ordenar", "error"} /\ salida = <<>>)

\* the set bits of a pattern as original indices, in ranked order
RECURSIVE IndicesDe(_, _, _)
IndicesDe(objs, pat, j) ==
    IF j = Len(objs) THEN <<>>
    ELSE IF (pat \div Pow2(j)) % 2 = 1
         THEN <<objs[j + 1][3]>> \o IndicesDe(objs, pat, j + 1)
         ELSE IndicesDe(objs, pat, j + 1)

PatronesOptimos ==
    {pat \in 0..(Pow2(N) - 1) :
        LET S == Range(IndicesDe(objetos, pat, 0))
        IN  Factible(S) /\ SumaSobre(S, P) = ValorOptimo}

PrimerPatronOptimo == CHOOSE pat \in PatronesOptimos : \A q \in PatronesOptimos : pat <= q

\* C6: among the feasible patterns of maximal value the stored subset is that
\* of the smallest pattern integer; the notebook's scenario gives 22 and the
\* original indices 0, 1, 4.
C6_Desempate ==
    (TerminadoMochila /\ PesosPositivos) =>
        /\ mejor_combinacion = Lista(IndicesDe(objetos, PrimerPatronOptimo, 0))
        /\ (W = WEjemplo /\ P = PEjemplo /\ C = CEjemplo) =>
               (mejor_ganancia = 22 /\ SortedAsc(mejor_combinacion.val) = <<0, 1, 4>>)

\* C7: with non-negative weights the loop with the break holds, after every
\* iteration, the same best value and best selection as the loop without it.
C7_CorteInocuo ==
    (EnumerandoMochila /\ PesosNoNegativos) =>
        LET r == Recorrer(objetos, i, FALSE)
        IN  mejor_ganancia = r.ganancia /\ mejor_combinacion = r.combinacion

\* a finished run in which some pattern was abandoned with items still to come
C7_Witness ==
    /\ TerminadoMochila /\ PesosNoNegativos
    /\ mejor_combinacion.tipo = "list"
    /\ \E pat \in 0..(NumPatrones - 1) :
           Evaluar(objetos, pat, 0, Inicio, TRUE) # Evaluar(objetos, pat, 0, Inicio, FALSE)

\* C8: whenever mejor_combinacion holds a selection, it is a list of distinct
\* original item indices whose weights sum to at most C and whose values sum
\* to mejor_ganancia.
C8_MejorFactible ==
    mejor_combinacion.tipo = "list" =>
        LET sel == mejor_combinacion.val
        IN  /\ Range(sel) \subseteq 0..(N - 1)
            /\ Cardinality(Range(sel)) = Len(sel)
            /\ SumaSobre(Range(sel), W) <= C
            /\ SumaSobre(Range(sel), P) = mejor_ganancia

\* a stored selection whose original indices are not its ranked positions
C8_Witness ==
    /\ PesosPositivos
    /\ mejor_combinacion.tipo = "list"
    /\ mejor_combinacion.val # <<>>
    /\ \E pat \in 0..(NumPatrones - 1) :
           /\ mejor_combinacion.val = IndicesDe(objetos, pat, 0)
           /\ Range(mejor_combinacion.val) # {j \in 0..(N - 1) : (pat \div Pow2(j)) % 2 = 1}

\* every order of the item list
Ordenes ==
    {s \in [1..N -> Range(Items)] : Range(s) = Range(Items) /\
        \A x, y \in 1..N : s[x][3] = s[y][3] => x = y}

\* C9: with positive weights the final mejor_ganancia is the one the same
\* enumeration reaches over any order of the item list.
C9_OrdenIndiferente ==
    (TerminadoMochila /\ PesosPositivos) =>
        \A s \in Ordenes : Recorrer(s, NumPatrones, TRUE).ganancia = mejor_ganancia

\* a finished run where another order reports a different optimal subset
C9_Witness ==
    /\ TerminadoMochila /\ PesosPositivos
    /\ mejor_combinacion.tipo = "list"
    /\ \E s \in Ordenes :
           /\ s # objetos
           /\ Range(Recorrer(s, NumPatrones, TRUE).combinacion.val)
                  # Range(mejor_combinacion.val)

----------------------------------------------------------------------------
\* Properties of the travelling salesman notebook (checked under SpecTSP)

TerminadoTSP == pc \in {"mostrar", "done"}

Interiores ==
    {f \in [1..(NCiudades - 1) -> 1..(NCiudades - 1)] :
        \A x, y \in 1..(NCiudades - 1) : f[x] = f[y] => x = y}

Arco(a, b) == distancias[a + 1][b + 1]

\* cost of the directed cycle 0 -> f[1] -> ... -> f[N-1] -> 0; 0 for N = 1
RECURSIVE CosteTramo(_, _)
CosteTramo(f, x) ==
    IF x >= Len(f) THEN 0 ELSE Arco(f[x], f[x + 1]) + CosteTramo(f, x + 1)
CosteCiclo(f) ==
    IF Len(f) = 0 THEN 0
    ELSE Arco(0, f[1]) + CosteTramo(f, 1) + Arco(f[Len(f)], 0)

CosteMinimo ==
    CHOOSE c \in {CosteCiclo(f) : f \in Interiores} :
        \A f \in Interiores : c <= CosteCiclo(f)

\* C2: when the permutation loop has finished, distancia_minima is the least
\* directed cycle cost over all permutations of 1..N-1; for N = 1 the result
\* is the route (0, 0) with cost 0.
C2_Optimalidad ==
    TerminadoTSP =>
        /\ distancia_minima = Numero(CosteMinimo)
        /\ NCiudades = 1 => (mejor_ruta = Lista(<<0, 0>>) /\ distancia_minima = Numero(0))

\* a finished run on a matrix that is not symmetric, whose best route is not
\* the first one enumerated
C2_Witness ==
    /\ TerminadoTSP
    /\ NCiudades >= 3
    /\ \E a, b \in 0..(NCiudades - 1) : Arco(a, b) # Arco(b, a)
    /\ distancia_minima.val < DistanciaTotal(Ruta(Permutaciones(RangoCiudades)[1]))

\* C3: the stored route has length N+1, starts and ends at 0 and holds each
\* of 1..N-1 exactly once in between, and distancia_minima is its cost.
C3_RutaValida ==
    (TerminadoTSP \/ k >= 1) =>
        /\ mejor_ruta.tipo = "list"
        /\ LET r == mejor_ruta.val
               interior == SubSeq(r, 2, Len(r) - 1)
           IN  /\ Len(r) = NCiudades + 1
               /\ r[1] = 0 /\ r[Len(r)] = 0
               /\ Range(interior) = 1..(NCiudades - 1)
               /\ Cardinality(Range(interior)) = Len(interior)
               /\ distancia_minima = Numero(CosteCiclo(interior))

\* a finished run whose stored route costs something else when travelled
\* backwards
C3_Witness ==
    /\ TerminadoTSP
    /\ NCiudades >= 3
    /\ LET r == mejor_ruta.val
       IN  CosteCiclo(SubSeq(r, 2, Len(r) - 1))
               # CosteCiclo([x \in 1..(Len(r) - 2) |-> r[Len(r) - x]])

\* a < b in lexicographic order, for tuples of equal length
LexMenor(a, b) ==
    \E x \in 1..Len(a) : a[x] < b[x] /\ \A y \in 1..(x - 1) : a[y] = b[y]

\* the first of the first n routes enumerated that has the least cost of them
PrimeraMinima(n) ==
    LET perms == Permutaciones(RangoCiudades)
        coste(x) == CosteCiclo(perms[x])
        x0 == CHOOSE x \in 1..n :
                  /\ \A y \in 1..n : coste(x) <= coste(y)
                  /\ \A y \in 1..(x - 1) : coste(y) > coste(x)
    IN  Lista(<<0>> \o perms[x0] \o <<0>>)

\* C10: the permutations are evaluated in lexicographic order; after every
\* iteration the stored route is the first of least cost among those seen,
\* so at the end it is the lexicographically first route of minimal cost
\* ((0,1,3,2,0) with cost 80 in the notebook's scenario); and once a route of
\* globally minimal cost is stored, no step replaces it.
C10_PrimeroGana ==
    /\ [](LET perms == Permutaciones(RangoCiudades)
          IN  /\ \A x \in 1..(Len(perms) - 1) : LexMenor(perms[x], perms[x + 1])
              /\ k >= 1 => mejor_ruta = PrimeraMinima(k)
              /\ (TerminadoTSP /\ distancias = DistEjemplo) =>
                     (mejor_ruta = Lista(<<0, 1, 3, 2, 0>>)
                          /\ distancia_minima = Numero(80)))
    /\ [][(distancia_minima = Numero(CosteMinimo)) =>
              (mejor_ruta' = mejor_ruta /\ distancia_minima' = distancia_minima)]_vars

\* a finished run in which a later route ties with the stored one
C10_Witness ==
    /\ TerminadoTSP
    /\ LET perms == Permutaciones(RangoCiudades)
       IN  \E x, y \in 1..Len(perms) :
               /\ x < y
               /\ mejor_ruta = Lista(Ruta(perms[x]))
               /\ CosteCiclo(perms[y]) = distancia_minima.val

====
